---- MODULE Spec2Model ----
(***************************************************************************)
(* A model of fontpreview's page layout engine: FontPageTemplate,          *)
(* FontPage and FontBooklet (src/fontpreview/fontpage.py) on top of the    *)
(* FontPreview renderer (src/fontpreview/fontpreview.py).                  *)
(*                                                                         *)
(* Python objects are records; a reference is the name of an object, so    *)
(* two bands that hold the same renderer hold the same name.  A pair       *)
(* (width, height) is a 2-tuple <<w, h>>.  An operation that raises ends   *)
(* with the state it had reached when it raised.                           *)
(***************************************************************************)
EXTENDS Integers, Sequences, FiniteSets, TLC

VARIABLES
    tpl,    \* the FontPageTemplate object
    tlast,  \* the last FontPageTemplate call: its arguments, outcome and the template before it
    page,   \* the FontPage object
    rs,     \* the renderers and other objects the caller holds, by name
    plast,  \* the last FontPage call: its arguments and outcome, and whether it
            \* is a draw that follows a draw with the same arguments that returned
    fsys,   \* the file system: what each path is, and the files of a directory
    book,   \* the FontBooklet the caller holds
    bpages, \* the FontPage objects a booklet is made of, by name
    blast,  \* the last FontBooklet call: its arguments and outcome
    fprev,  \* a FontPreview object used on its own
    flast   \* the last FontPreview call: its arguments and outcome, and the
            \* anchor name the text position was last chosen by

tvars == <<tpl, tlast>>
pvars == <<page, rs, plast>>
bvars == <<fsys, book, bpages, blast>>
rvars == <<fprev, flast>>
vars == <<tpl, tlast, page, rs, plast, fsys, book, bpages, blast, fprev, flast>>

(***************************************************************************)
(* FontPageTemplate                                                        *)
(***************************************************************************)

\* Defaults of FontPageTemplate.__init__.
DefaultPageHeight == 3508
DefaultUnitsNumber == 6
DefaultHeaderFontSize == 120
DefaultBodyFontSize == 140
DefaultFooterFontSize == 120
DefaultBodyUnitCount == 3
DefaultFooterUnitCount == 2

\* Inputs the callers of the model pass.
MaxUnits == 4
PageHeights == {DefaultPageHeight, 1200}
UnitsNumbers == {DefaultUnitsNumber, 4}
TplFontSizes == {90}
TplUnitCounts == 0..MaxUnits
TplPositions == {"lcenter", "left"}
Bands == {"header", "body", "footer"}

\* FontPageTemplate.__init__(page_height, units_number)
NewTemplate(page_height, units_number) ==
    LET unit == page_height \div units_number
    IN [page_height |-> page_height,
        unit |-> unit,
        header_font_size |-> DefaultHeaderFontSize,
        header_units |-> unit,
        header_text_position |-> "center",
        body_font_size |-> DefaultBodyFontSize,
        body_units |-> unit * DefaultBodyUnitCount,
        body_text_position |-> "center",
        footer_font_size |-> DefaultFooterFontSize,
        footer_units |-> unit * DefaultFooterUnitCount,
        footer_text_position |-> "center"]

\* A faulty variant of CheckUnits: the total is taken over the three stored heights,
\* the new height of the band being set is left out.
CheckUnitsStored(t, context, unit) ==
    t.header_units + t.body_units + t.footer_units <= t.page_height

\* FontPageTemplate.__check_units(context, unit): TRUE when it returns,
\* FALSE when it raises ValueError.
CheckUnits(t, context, unit) ==
    LET total_units ==
            CASE context = "header" -> unit + t.body_units + t.footer_units
              [] context = "body" -> t.header_units + unit + t.footer_units
              [] context = "footer" -> t.header_units + t.body_units + unit
    IN ~(total_units > t.page_height)

\* The template after set_header / set_body / set_footer(font_size, units,
\* text_position): the font size is stored first, then the check runs, and
\* only when it returns are the height and the text position stored.
TplAfterSet(t, band, font_size, units, text_position) ==
    LET unit == t.unit * units
        t1 == CASE band = "header" -> [t EXCEPT !.header_font_size = font_size]
                [] band = "body" -> [t EXCEPT !.body_font_size = font_size]
                [] band = "footer" -> [t EXCEPT !.footer_font_size = font_size]
    IN IF ~CheckUnits(t1, band, unit) THEN t1
       ELSE CASE band = "header" ->
                    [t1 EXCEPT !.header_units = unit,
                               !.header_text_position = text_position]
              [] band = "body" ->
                    [t1 EXCEPT !.body_units = unit,
                               !.body_text_position = text_position]
              [] band = "footer" ->
                    [t1 EXCEPT !.footer_units = unit,
                               !.footer_text_position = text_position]

TplSetRaises(t, band, units) == ~CheckUnits(t, band, t.unit * units)

\* The record of a call: what was called with which arguments, whether it
\* raised, and the template before it.  units_number is the constructor's
\* argument, which the template itself does not keep.
NoTplCall(t, units_number) ==
    [op |-> "new", band |-> "none", font_size |-> 0, units |-> 0,
     text_position |-> "none", raised |-> FALSE, pre |-> t,
     units_number |-> units_number]

TplCall(band, font_size, units, text_position) ==
    [op |-> "set", band |-> band, font_size |-> font_size, units |-> units,
     text_position |-> text_position,
     raised |-> TplSetRaises(tpl, band, units), pre |-> tpl,
     units_number |-> tlast.units_number]

TplSetHeader(font_size, units, text_position) ==
    /\ tpl' = TplAfterSet(tpl, "header", font_size, units, text_position)
    /\ tlast' = TplCall("header", font_size, units, text_position)
    /\ UNCHANGED <<page, rs, plast, fsys, book, bpages, blast, fprev, flast>>

TplSetBody(font_size, units, text_position) ==
    /\ tpl' = TplAfterSet(tpl, "body", font_size, units, text_position)
    /\ tlast' = TplCall("body", font_size, units, text_position)
    /\ UNCHANGED <<page, rs, plast, fsys, book, bpages, blast, fprev, flast>>

TplSetFooter(font_size, units, text_position) ==
    /\ tpl' = TplAfterSet(tpl, "footer", font_size, units, text_position)
    /\ tlast' = TplCall("footer", font_size, units, text_position)
    /\ UNCHANGED <<page, rs, plast, fsys, book, bpages, blast, fprev, flast>>

\* The band fields of a template, as one record per band.
BandOf(t, band) ==
    CASE band = "header" ->
            [font_size |-> t.header_font_size, units |-> t.header_units,
             text_position |-> t.header_text_position]
      [] band = "body" ->
            [font_size |-> t.body_font_size, units |-> t.body_units,
             text_position |-> t.body_text_position]
      [] band = "footer" ->
            [font_size |-> t.footer_font_size, units |-> t.footer_units,
             text_position |-> t.footer_text_position]

TotalUnits(t) == t.header_units + t.body_units + t.footer_units

\* The heights of the two bands other than `band`.
OtherUnits(t, band) == TotalUnits(t) - BandOf(t, band).units

(***************************************************************************)
(* FontPreview: a renderer.  A renderer is a record                        *)
(*   kind          its class: "preview", "banner", "logo"; "other" is an   *)
(*                 object that is no renderer at all                       *)
(*   dimension     the dimension attribute                                 *)
(*   font_size     the font_size attribute                                 *)
(*   font          the size of the FreeTypeFont bound to self.font         *)
(*   font_position the computed text position                              *)
(*   image         the canvas of the last draw: its size, the font and the *)
(*                 position the text was drawn with, and what was pasted   *)
(*                 over it since                                           *)
(* The text and the colours never change in the model and are left out.    *)
(***************************************************************************)

\* The width of the text's bounding box per unit of font size; its height is
\* the font size.  The box is what the font library measures; the model takes
\* it proportional to the size.
TextFactor == 5

\* font.getbbox(text) / draw.multiline_textbbox((0, 0), text, font):
\* (left, top, right, bottom) of the text at font size `font`.
TextBBox(font) == <<0, 0, font * TextFactor, font>>

\* _bbox2size(bbox)
Bbox2Size(bbox) == <<bbox[3] - bbox[1], bbox[2] - bbox[4]>>

\* get_font_size(font, text)
GetFontSize(font) == Bbox2Size(TextBBox(font))

\* get_multiline_textsize(draw, text, font)
GetMultilineTextsize(font) == Bbox2Size(TextBBox(font))

\* Python's order on pairs: a > b and a < b.
PairGreater(a, b) == a[1] > b[1] \/ (a[1] = b[1] /\ a[2] > b[2])
PairLess(a, b) == a[1] < b[1] \/ (a[1] = b[1] /\ a[2] < b[2])

Anchors ==
    {"center", "top", "below", "rcenter", "rtop", "rbelow", "lcenter", "ltop",
     "lbelow"}

\* CALC_POSITION[name](ixy, fxy)
CalcPosition(name, ixy, fxy) ==
    CASE name = "center" -> <<(ixy[1] - fxy[1]) \div 2, (ixy[2] - fxy[2]) \div 2>>
      [] name = "top" -> <<(ixy[1] - fxy[1]) \div 2, 0>>
      [] name = "below" -> <<(ixy[1] - fxy[1]) \div 2, ixy[2] - fxy[2]>>
      [] name = "rcenter" -> <<ixy[1] - fxy[1], (ixy[2] - fxy[2]) \div 2>>
      [] name = "rtop" -> <<ixy[1] - fxy[1], 0>>
      [] name = "rbelow" -> <<ixy[1] - fxy[1], ixy[2] - fxy[2]>>
      [] name = "lcenter" -> <<0, (ixy[2] - fxy[2]) \div 2>>
      [] name = "ltop" -> <<0, 0>>
      [] name = "lbelow" -> <<0, ixy[2] - fxy[2]>>

\* The lookup with the top left corner for a name that is no anchor.
CalcPositionGetLtop(position, ixy, fxy) ==
    IF position \in Anchors THEN CalcPosition(position, ixy, fxy)
    ELSE CalcPosition("ltop", ixy, fxy)

\* CALC_POSITION.get(position, CALC_POSITION['center'])(ixy, fxy)
CalcPositionGet(position, ixy, fxy) ==
    IF position \in Anchors THEN CalcPosition(position, ixy, fxy)
    ELSE CalcPosition("center", ixy, fxy)

\* ImageFont.truetype(font, size) raises for a size that is not positive.
TruetypeRaises(size) == size <= 0

\* FontPreview.draw(): a new image of the renderer's dimension with the text
\* drawn at font_position in the bound font; whatever was pasted is gone.
PreviewDraw(r) ==
    [r EXCEPT !.image = [size |-> r.dimension, font |-> r.font,
                         position |-> r.font_position, overlay |-> <<>>]]

\* FontPreview.__resize(): [r |-> the renderer after it, raised |-> whether
\* ImageFont.truetype raised].  The loop compares the two pairs as Python
\* compares tuples.
RECURSIVE PreviewResize(_)
PreviewResize(r) ==
    IF ~PairGreater(GetMultilineTextsize(r.font), r.dimension)
    THEN [r |-> r, raised |-> FALSE]
    ELSE LET r1 == [r EXCEPT !.font_size = @ - 2]
         IN IF TruetypeRaises(r1.font_size)
            THEN [r |-> r1, raised |-> TRUE]
            ELSE PreviewResize([r1 EXCEPT !.font = r1.font_size])

\* FontPreview.set_font_size(size)
PreviewSetFontSize(r, size) ==
    LET r1 == [r EXCEPT !.font_size = size]
    IN IF TruetypeRaises(size) THEN [r |-> r1, raised |-> TRUE]
       ELSE LET res == PreviewResize([r1 EXCEPT !.font = size])
            IN IF res.raised THEN res
               ELSE [r |-> PreviewDraw(res.r), raised |-> FALSE]

\* FontPreview.set_text_position(position) with the name of an anchor
PreviewSetTextPosition(r, position) ==
    PreviewDraw([r EXCEPT !.font_position =
        CalcPositionGet(position, r.dimension, GetMultilineTextsize(r.font))])

\* FontPreview.set_text_position(position) with a pair of coordinates
PreviewSetTextPositionPair(r, position) ==
    PreviewDraw([r EXCEPT !.font_position = position])

\* FontPreview.__init__(font, font_size, dimension=dimension), and the
\* constructors of its subclasses, which differ in `kind`.
NewPreview(kind, font_size, dimension) ==
    PreviewDraw([kind |-> kind,
                 dimension |-> dimension,
                 font_size |-> font_size,
                 font |-> font_size,
                 font_position |->
                    CalcPosition("center", dimension, GetFontSize(font_size)),
                 image |-> [size |-> dimension, font |-> font_size,
                            position |-> <<0, 0>>, overlay |-> <<>>]])

\* An object that is no renderer: its fields are never read.
NotARenderer == [NewPreview("other", 1, <<0, 0>>) EXCEPT !.kind = "other"]

\* isinstance(x, FontBanner), isinstance(x, FontLogo), isinstance(x,
\* FontPreview): FontBanner and FontLogo are subclasses of FontPreview.
IsFontBanner(r) == r.kind = "banner"
IsFontLogo(r) == r.kind = "logo"
IsFontPreview(r) == r.kind \in {"preview", "banner", "logo"}

\* FontLogo.new_size(size): the logo at a new dimension, its text centred
\* again, redrawn.
LogoNewSize(r, size) ==
    PreviewDraw([r EXCEPT !.dimension = size,
                          !.font_position =
                             CalcPosition("center", size, GetFontSize(r.font))])

\* FontBanner.add_image(image, position) with a renderer and a pair of
\* coordinates: the renderer's image, cut down to the banner's size when it
\* is larger, is pasted over the banner's image.
BannerAddImage(r, other, position) ==
    LET img == other.image
        w == IF img.size[1] > r.image.size[1] THEN r.image.size[1] ELSE img.size[1]
        h == IF img.size[2] > r.image.size[2] THEN r.image.size[2] ELSE img.size[2]
        pasted == IF PairGreater(img.size, r.image.size)
                  THEN [img EXCEPT !.size = <<w, h>>]
                  ELSE img
        paste == [size |-> pasted.size, font |-> pasted.font,
                  position |-> pasted.position, at |-> position]
        over == r.image.overlay
    IN IF over # <<>> /\ over[Len(over)] = paste
       THEN r   \* the same pixels over the same pixels
       ELSE [r EXCEPT !.image.overlay = Append(over, paste)]

(***************************************************************************)
(* FontPage.  The page is a record                                         *)
(*   template   "None", or "tpl": the page's FontPageTemplate is `tpl`     *)
(*   dimension  the dimension attribute                                    *)
(*   canvas     self.page: its size, the images pasted on it with their    *)
(*              places, and the separator lines drawn on it                *)
(*   header, logo, body, footer                                            *)
(*              "None", the name of a renderer, or "unset" for an          *)
(*              attribute that was never assigned                          *)
(* The operations work on a machine state m: the page, the renderers by    *)
(* name, the template, and `raised`, the exception the operation ended     *)
(* with ("none" when it returned).                                         *)
(***************************************************************************)

DefaultPageWidth == 2480
LogoCap == 75

Objs == {"fb", "fp", "fl", "obj"}

\* Image.new(color_system, dimension, color='white')
BlankCanvas(dimension) == [size |-> dimension, pastes |-> <<>>, lines |-> <<>>]

\* self.page.width
PageWidth(pg) == pg.canvas.size[1]

\* The renderer brought to the page's width and redrawn when its image has
\* another width (set_header, set_body and set_footer all do this).
Widen(pg, r) ==
    IF PageWidth(pg) # r.image.size[1]
    THEN PreviewDraw([r EXCEPT !.dimension = <<PageWidth(pg), r.image.size[2]>>])
    ELSE r

\* FontPage.set_header(header)
PageSetHeader(m, header) ==
    IF IsFontBanner(m.rs[header])
    THEN [m EXCEPT !.rs[header] = Widen(m.page, @), !.page.header = header]
    ELSE [m EXCEPT !.raised = "TypeError"]

\* FontPage.set_logo(logo)
PageSetLogo(m, logo) ==
    IF ~IsFontLogo(m.rs[logo]) THEN [m EXCEPT !.raised = "TypeError"]
    ELSE IF m.page.header = "None" THEN [m EXCEPT !.raised = "ValueError"]
    ELSE LET h == m.page.header
             lg == IF PairLess(m.rs[h].image.size, m.rs[logo].image.size)
                   THEN LogoNewSize(m.rs[logo], <<LogoCap, LogoCap>>)
                   ELSE m.rs[logo]
             at == CalcPosition("lcenter", m.rs[h].dimension,
                                GetFontSize(m.rs[h].font))
         IN [m EXCEPT !.rs = [@ EXCEPT ![logo] = lg,
                                       ![h] = BannerAddImage(m.rs[h], lg, at)]]

\* A faulty variant of PageSetBody: the width is looked at before the class.
PageSetBodyWidenFirst(m, body) ==
    LET m1 == [m EXCEPT !.rs[body] = Widen(m.page, @)]
    IN IF ~IsFontPreview(m.rs[body]) THEN [m1 EXCEPT !.raised = "TypeError"]
       ELSE [m1 EXCEPT !.page.body = body]

\* FontPage.set_body(body)
PageSetBody(m, body) ==
    IF ~IsFontPreview(m.rs[body]) THEN [m EXCEPT !.raised = "TypeError"]
    ELSE [m EXCEPT !.rs[body] = Widen(m.page, @), !.page.body = body]

\* FontPage.set_footer(footer)
PageSetFooter(m, footer) ==
    IF ~IsFontPreview(m.rs[footer]) THEN [m EXCEPT !.raised = "TypeError"]
    ELSE [m EXCEPT !.rs[footer] = Widen(m.page, @), !.page.footer = footer]

PageSetBand(m, band, x) ==
    CASE band = "header" -> PageSetHeader(m, x)
      [] band = "body" -> PageSetBody(m, x)
      [] band = "footer" -> PageSetFooter(m, x)

\* One "Compose header / body / footer" block of FontPage.__compose: the
\* band's renderer is set again, given the band's height when its image has
\* another, then the band's font size and text position.
ComposeBand(m, band) ==
    IF m.raised # "none" THEN m
    ELSE LET m1 == PageSetBand(m, band, m.page[band])
             name == m1.page[band]
             b == BandOf(m1.tpl, band)
             r == m1.rs[name]
             r1 == IF r.image.size[2] # b.units
                   THEN [r EXCEPT !.dimension = <<PageWidth(m1.page), b.units>>]
                   ELSE r
             res == PreviewSetFontSize(r1, b.font_size)
         IN IF m1.raised # "none" THEN m1
            ELSE IF res.raised
            THEN [m1 EXCEPT !.rs[name] = res.r, !.raised = "ValueError"]
            ELSE [m1 EXCEPT !.rs[name] =
                                PreviewSetTextPosition(res.r, b.text_position)]

\* The first lines of __compose: a page without a template gets a default one
\* of the page's height.
ComposeTemplate(m) ==
    IF m.page.template = "None"
    THEN [m EXCEPT !.tpl = NewTemplate(m.page.dimension[2], DefaultUnitsNumber),
                   !.page.template = "tpl"]
    ELSE m

\* A faulty variant of ComposeBackground: the page keeps the canvas it had.
ComposeBackgroundKeepCanvas(m) ==
    [m EXCEPT !.page.dimension = <<m.page.dimension[1], m.tpl.page_height>>]

\* A faulty variant of ComposeBackground: the blank canvas is made before the page
\* takes the template's height.
ComposeBackgroundStaleSize(m) ==
    [m EXCEPT !.page.dimension = <<m.page.dimension[1], m.tpl.page_height>>,
              !.page.canvas = BlankCanvas(m.page.dimension)]

\* "Compose background": the page takes the template's height and a blank
\* canvas.
ComposeBackground(m) ==
    LET dim == <<m.page.dimension[1], m.tpl.page_height>>
    IN [m EXCEPT !.page.dimension = dim, !.page.canvas = BlankCanvas(dim)]

MissingBand(pg) == pg.header = "None" \/ pg.body = "None" \/ pg.footer = "None"

\* A faulty variant of Compose: the bands are looked at after the background is
\* composed.
ComposeCheckLate(m) ==
    LET m1 == ComposeBackground(ComposeTemplate(m))
    IN IF MissingBand(m1.page) THEN [m1 EXCEPT !.raised = "AttributeError"]
       ELSE ComposeBand(ComposeBand(ComposeBand(m1,
                "header"), "body"), "footer")

\* FontPage.__compose()
Compose(m) ==
    LET m1 == ComposeTemplate(m)
    IN IF MissingBand(m1.page) THEN [m1 EXCEPT !.raised = "AttributeError"]
       ELSE ComposeBand(ComposeBand(ComposeBand(ComposeBackground(m1),
                "header"), "body"), "footer")

\* FontPage.draw(separator=separator): compose, then paste the three images
\* on the canvas and draw the two lines on it.
PageDraw(m, separator) ==
    LET c == Compose(m)
    IN IF c.raised # "none" THEN c
       ELSE LET h == c.rs[c.page.header].image
                b == c.rs[c.page.body].image
                f == c.rs[c.page.footer].image
                w == PageWidth(c.page)
                header_start == <<0, 0>>
                body_start == <<0, h.size[2]>>
                footer_start == <<0, b.size[2] + h.size[2]>>
                body_finish == <<w, h.size[2]>>
                footer_finish == <<w, b.size[2] + h.size[2]>>
            IN [c EXCEPT
                 !.page.canvas.pastes =
                    @ \o <<[img |-> h, at |-> header_start],
                           [img |-> b, at |-> body_start],
                           [img |-> f, at |-> footer_start]>>,
                 !.page.canvas.lines =
                    IF separator
                    THEN @ \o <<<<body_start, body_finish>>,
                                <<footer_start, footer_finish>>>>
                    ELSE @]

\* FontPage.__init__(template, dimension, header, logo, body, footer), with
\* "None" for an argument that is not given; has_template says whether
\* template t is given.
NewPage(objects, t, has_template, dimension, header, logo, body, footer) ==
    LET dim == IF has_template THEN <<dimension[1], t.page_height>>
               ELSE dimension
        m0 == [page |-> [template |-> IF has_template THEN "tpl" ELSE "None",
                         dimension |-> dim,
                         canvas |-> BlankCanvas(dim),
                         header |-> "unset", logo |-> "unset",
                         body |-> "unset", footer |-> "unset"],
               rs |-> objects, tpl |-> t, raised |-> "none"]
        m1 == IF header # "None" THEN PageSetHeader(m0, header)
              ELSE [m0 EXCEPT !.page.header = "None"]
        m2 == IF m1.raised # "none" THEN m1
              ELSE IF logo # "None" THEN PageSetLogo(m1, logo)
              ELSE [m1 EXCEPT !.page.logo = "None"]
        m3 == IF m2.raised # "none" THEN m2
              ELSE IF body # "None" THEN PageSetBody(m2, body)
              ELSE [m2 EXCEPT !.page.body = "None"]
    IN IF m3.raised # "none" THEN m3
       ELSE IF footer # "None" THEN PageSetFooter(m3, footer)
       ELSE [m3 EXCEPT !.page.footer = "None"]

(***************************************************************************)
(* FontBooklet and the file system it saves to.  A path of the file system *)
(* is "missing", a "file" or a "dir"; a directory has files, each a name   *)
(* and the canvas written to it.  The name page<n>.<extension> is the pair *)
(* <<n, extension>>.                                                       *)
(***************************************************************************)

MaxPages == 2

\* The paths of the model; "new/sub" lies in "new".
Paths == {"out", "new", "new/sub", "file.txt"}
Parent(path) == IF path = "new/sub" THEN "new" ELSE "."

\* Path.is_dir() and Path.exists()
IsDir(fs, path) == fs[path].kind = "dir"
Exists(fs, path) == fs[path].kind # "missing"

\* Path.mkdir(parents=True): the directory and its missing parents.
MkdirParents(fs, path) ==
    [q \in Paths |->
        IF (q = path \/ q = Parent(path)) /\ ~Exists(fs, q)
        THEN [kind |-> "dir", files |-> {}]
        ELSE fs[q]]

\* f'page{idx + 1}.{extension}'
PageFileName(idx, extension) == <<idx + 1, extension>>

\* FontPage.save(path): the page's canvas is written to the file, which
\* replaces a file of that name.
PageSave(fs, pg, folder, name) ==
    [fs EXCEPT ![folder].files =
        {f \in @ : f.name # name} \cup {[name |-> name, data |-> pg.canvas]}]

\* The loop with each page saved under the name of its position counted
\* from zero.
RECURSIVE SavePagesFromZero(_, _, _, _, _, _)
SavePagesFromZero(fs, objects, pages, folder, extension, idx) ==
    IF idx >= Len(pages) THEN fs
    ELSE SavePagesFromZero(PageSave(fs, objects[pages[idx + 1]], folder,
                                    <<idx, extension>>),
                           objects, pages, folder, extension, idx + 1)

\* The loop of FontBooklet.save over enumerate(self), from index idx on.
RECURSIVE SavePages(_, _, _, _, _, _)
SavePages(fs, objects, pages, folder, extension, idx) ==
    IF idx >= Len(pages) THEN fs
    ELSE SavePages(PageSave(fs, objects[pages[idx + 1]], folder,
                            PageFileName(idx, extension)),
                   objects, pages, folder, extension, idx + 1)

\* FontBooklet.save(folder, extension): the file system after it and the
\* exception it ended with.
BookletSave(fs, objects, pages, folder, extension) ==
    IF ~IsDir(fs, folder) THEN [fs |-> fs, raised |-> "NotADirectoryError"]
    ELSE LET fs1 == IF ~Exists(fs, folder) THEN MkdirParents(fs, folder)
                    ELSE fs
         IN [fs |-> SavePages(fs1, objects, pages, folder, extension, 0),
             raised |-> "none"]

\* isinstance(page, FontPage), for the name of an object
IsFontPage(x) == x \in {"pg1", "pg2"}

\* The constructor with the type of the first argument checked only.
NewBookletFirstOnly(args) ==
    IF Len(args) > 0 /\ ~IsFontPage(args[1])
    THEN [stored |-> FALSE, pages |-> <<>>, raised |-> "TypeError"]
    ELSE [stored |-> TRUE, pages |-> args, raised |-> "none"]

\* FontBooklet.__init__(*pages): the pages the new booklet stores, and the
\* exception the constructor ended with.
NewBooklet(args) ==
    IF \E i \in 1..Len(args) : ~IsFontPage(args[i])
    THEN [stored |-> FALSE, pages |-> <<>>, raised |-> "TypeError"]
    ELSE [stored |-> TRUE, pages |-> args, raised |-> "none"]

\* FontBooklet.__iter__
BookletIter(b) == b.pages

(***************************************************************************)
(* Specifications                                                          *)
(***************************************************************************)

\* The template of a page that has none: the variable is not read.
NoTemplate == NewTemplate(0, DefaultUnitsNumber)

\* FontPreview's default font size and dimension.
DefaultFontSize == 64
DefaultPreviewWidth == 700
DefaultPreviewHeight == 327

\* The objects and arguments the caller constructs a page from.
BannerDims == {<<DefaultPageWidth, DefaultPageHeight \div DefaultUnitsNumber>>}
PreviewDims == {<<DefaultPreviewWidth, DefaultPreviewHeight>>}
LogoDims == {<<100, 100>>}
PageDims == {<<DefaultPageWidth, DefaultPageHeight>>, <<500, 1000>>}

\* The arguments of FontPage(...): whether a template is given, the
\* dimension, and header, logo, body and footer ("None": not given).  The
\* last one is the page of test_declarative_object.
CtorArgs ==
    {<<t, d, "None", "None", "None", "None">> : t \in BOOLEAN, d \in PageDims}
    \cup {<<FALSE, <<DefaultPageWidth, DefaultPageHeight>>, "fb", "fl", "fb", "fb">>}

\* The template a caller passes to the page: one whose footer is taller than
\* the other two bands, as three accepted calls leave it.
GivenTemplate ==
    TplAfterSet(TplAfterSet(TplAfterSet(
        NewTemplate(DefaultPageHeight, DefaultUnitsNumber),
        "header", 120, 1, "center"), "body", 170, 1, "left"),
        "footer", 100, 4, "rbelow")

\* The objects the caller passes to each setter: a renderer the setter
\* accepts, one of another class, and an object that is no renderer.
HeaderArgs == {"fb", "fp"}
LogoArgs == {"fl", "fb"}
BodyArgs == {"fb", "fp", "obj"}
FooterArgs == {"fb", "fl", "obj"}

\* The machine state the next call starts from.
Cur == [page |-> page, rs |-> rs, tpl |-> tpl, raised |-> "none"]

\* A call of `op` that ends in machine state m.
PageCall(op, obj, separator, m) ==
    /\ page' = m.page
    /\ rs' = m.rs
    /\ tpl' = m.tpl
    /\ plast' = [op |-> op, obj |-> obj, separator |-> separator,
                 raised |-> m.raised,
                 again |-> /\ op = "draw"
                           /\ plast.op = "draw"
                           /\ plast.raised = "none"
                           /\ plast.separator = separator]
    /\ UNCHANGED <<tlast, fsys, book, bpages, blast, fprev, flast>>

PSetHeader(x) == PageCall("set_header", x, FALSE, PageSetHeader(Cur, x))
PSetLogo(x) == PageCall("set_logo", x, FALSE, PageSetLogo(Cur, x))
PSetBody(x) == PageCall("set_body", x, FALSE, PageSetBody(Cur, x))
PSetFooter(x) == PageCall("set_footer", x, FALSE, PageSetFooter(Cur, x))
PDraw(separator) == PageCall("draw", "None", separator, PageDraw(Cur, separator))

\* The caller assigns page.dimension.
PSetDimension(d) ==
    PageCall("dimension", "None", FALSE, [Cur EXCEPT !.page.dimension = d])

\* Before any booklet is made: no call, an empty file system.
NoBooklet ==
    /\ fsys = [q \in Paths |-> [kind |-> "missing", files |-> {}]]
    /\ book = [stored |-> FALSE, pages |-> <<>>]
    /\ bpages = [x \in {"pg1", "pg2"} |-> 0]
    /\ blast = [op |-> "none"]
    /\ fprev = NotARenderer
    /\ flast = [op |-> "none"]

TInit ==
    /\ \E h \in PageHeights, n \in UnitsNumbers :
        /\ tpl = NewTemplate(h, n)
        /\ tlast = NoTplCall(tpl, n)
    /\ rs = [o \in Objs |-> NotARenderer]
    /\ page = NewPage(rs, tpl, TRUE, <<DefaultPageWidth, DefaultPageHeight>>,
                      "None", "None", "None", "None").page
    /\ plast = [op |-> "none", obj |-> "None", separator |-> FALSE,
                raised |-> "none", again |-> FALSE]
    /\ NoBooklet

TNext ==
    \/ \E fs \in TplFontSizes, u \in TplUnitCounts, pos \in TplPositions :
            TplSetHeader(fs, u, pos)
    \/ \E fs \in TplFontSizes, u \in TplUnitCounts, pos \in TplPositions :
            TplSetBody(fs, u, pos)
    \/ \E fs \in TplFontSizes, u \in TplUnitCounts, pos \in TplPositions :
            TplSetFooter(fs, u, pos)

TSpec == TInit /\ [][TNext]_vars

PInit ==
    \E args \in CtorArgs, db \in BannerDims, dp \in PreviewDims, dl \in LogoDims :
        LET objects == [o \in Objs |->
                CASE o = "fb" -> NewPreview("banner", DefaultFontSize, db)
                  [] o = "fp" -> NewPreview("preview", DefaultFontSize, dp)
                  [] o = "fl" -> NewPreview("logo", DefaultFontSize, dl)
                  [] o = "obj" -> NotARenderer]
            t == IF args[1] THEN GivenTemplate ELSE NoTemplate
            m == NewPage(objects, t, args[1], args[2],
                         args[3], args[4], args[5], args[6])
        IN /\ m.raised = "none"
           /\ page = m.page
           /\ rs = m.rs
           /\ tpl = m.tpl
           /\ tlast = NoTplCall(tpl, DefaultUnitsNumber)
           /\ plast = [op |-> "new", obj |-> "None", separator |-> FALSE,
                       raised |-> "none", again |-> FALSE]
           /\ NoBooklet

PNext ==
    \/ \E x \in HeaderArgs : PSetHeader(x)
    \/ \E x \in LogoArgs : PSetLogo(x)
    \/ \E x \in BodyArgs : PSetBody(x)
    \/ \E x \in FooterArgs : PSetFooter(x)
    \/ \E separator \in BOOLEAN : PDraw(separator)
    \/ \E d \in PageDims : PSetDimension(d)

PSpec == PInit /\ [][PNext]_vars

\* The arguments of FontBooklet(...) and of save.
BookletArgs ==
    UNION {[1..n -> {"pg1", "pg2", "obj"}] : n \in 0..MaxPages}
SaveFolders == {"out", "new/sub", "file.txt"}
Extensions == {"png", "jpg"}

\* A page that was never drawn, and a page that was drawn with one banner
\* for its three bands.
FreshPage(dimension) ==
    NewPage([o \in Objs |-> NotARenderer], NoTemplate, FALSE, dimension,
            "None", "None", "None", "None").page
DrawnPage ==
    LET objects == [o \in Objs |->
            IF o = "fb"
            THEN NewPreview("banner", DefaultFontSize,
                            <<DefaultPreviewWidth, DefaultPreviewHeight>>)
            ELSE NotARenderer]
        m == NewPage(objects, NoTemplate, FALSE,
                     <<DefaultPageWidth, DefaultPageHeight>>,
                     "fb", "None", "fb", "fb")
    IN PageDraw(m, TRUE).page

\* b = FontBooklet(*args): the caller holds the new booklet when the
\* constructor returns, and the one it held when it raises.
BNew(args) ==
    LET b == NewBooklet(args)
    IN /\ book' = IF b.raised = "none"
                  THEN [stored |-> b.stored, pages |-> b.pages]
                  ELSE book
       /\ blast' = [op |-> "new", args |-> args, raised |-> b.raised,
                    stored |-> b.stored, folder |-> "None",
                    extension |-> "None", before |-> "None", files |-> {}]
       /\ UNCHANGED <<fsys, bpages, tpl, tlast, page, rs, plast, fprev, flast>>

\* book.save(folder, extension)
BSave(folder, extension) ==
    LET res == BookletSave(fsys, bpages, BookletIter(book), folder, extension)
    IN /\ book.stored
       /\ fsys' = res.fs
       /\ blast' = [op |-> "save", args |-> <<>>, raised |-> res.raised,
                    stored |-> TRUE, folder |-> folder,
                    extension |-> extension, before |-> fsys[folder].kind,
                    files |-> fsys[folder].files]
       /\ UNCHANGED <<book, bpages, tpl, tlast, page, rs, plast, fprev, flast>>

BInit ==
    /\ tpl = NewTemplate(DefaultPageHeight, DefaultUnitsNumber)
    /\ tlast = NoTplCall(tpl, DefaultUnitsNumber)
    /\ rs = [o \in Objs |-> NotARenderer]
    /\ page = FreshPage(<<DefaultPageWidth, DefaultPageHeight>>)
    /\ plast = [op |-> "none", obj |-> "None", separator |-> FALSE,
                raised |-> "none", again |-> FALSE]
    /\ fsys = [q \in Paths |->
                CASE q = "out" -> [kind |-> "dir", files |-> {}]
                  [] q = "file.txt" -> [kind |-> "file", files |-> {}]
                  [] OTHER -> [kind |-> "missing", files |-> {}]]
    /\ book = [stored |-> FALSE, pages |-> <<>>]
    /\ \E d \in PageDims :
        bpages = [x \in {"pg1", "pg2"} |->
                    IF x = "pg1" THEN FreshPage(d) ELSE DrawnPage]
    /\ blast = [op |-> "none", args |-> <<>>, raised |-> "none",
                stored |-> FALSE, folder |-> "None", extension |-> "None",
                before |-> "None", files |-> {}]
    /\ fprev = NotARenderer
    /\ flast = [op |-> "none"]

BNext ==
    \/ \E args \in BookletArgs : BNew(args)
    \/ \E folder \in SaveFolders, extension \in Extensions :
            BSave(folder, extension)

BSpec == BInit /\ [][BNext]_vars

(***************************************************************************)
(* A FontPreview used on its own (specification RSpec): the caller sets    *)
(* its font size and text position, assigns its dimension and draws it.    *)
(***************************************************************************)

MaxFontSize == 6

\* The arguments of the calls.
RSizes == 1..MaxFontSize
RDims == {<<30, 4>>, <<12, 20>>, <<3, 10>>, <<20, 20>>}
RNames == Anchors \cup {"middle"}
RPairs == {<<5, 7>>}

\* A call of the FontPreview and its outcome.  `anchor` is the name the
\* text position was last chosen by, "pair" after a pair of coordinates.
PreviewCall(op, size, position, pair, r, raised, anchor) ==
    /\ fprev' = r
    /\ flast' = [op |-> op, size |-> size, position |-> position,
                 pair |-> pair, raised |-> raised, anchor |-> anchor]
    /\ UNCHANGED <<tpl, tlast, page, rs, plast, fsys, book, bpages, blast>>

\* fprev.set_font_size(size)
RSetFontSize(size) ==
    LET res == PreviewSetFontSize(fprev, size)
    IN PreviewCall("set_font_size", size, "none", <<0, 0>>, res.r, res.raised,
                   flast.anchor)

\* fprev.set_text_position(name)
RSetTextPosition(name) ==
    PreviewCall("set_text_position", 0, name, <<0, 0>>,
                PreviewSetTextPosition(fprev, name), FALSE, name)

\* fprev.set_text_position((x, y))
RSetTextPositionPair(xy) ==
    PreviewCall("set_text_position", 0, "pair", xy,
                PreviewSetTextPositionPair(fprev, xy), FALSE, "pair")

\* The caller assigns fprev.dimension.
RSetDimension(d) ==
    PreviewCall("dimension", 0, "none", <<0, 0>>,
                [fprev EXCEPT !.dimension = d], FALSE, flast.anchor)

\* fprev.draw()
RDraw ==
    PreviewCall("draw", 0, "none", <<0, 0>>, PreviewDraw(fprev), FALSE,
                flast.anchor)

RInit ==
    /\ tpl = NewTemplate(DefaultPageHeight, DefaultUnitsNumber)
    /\ tlast = NoTplCall(tpl, DefaultUnitsNumber)
    /\ rs = [o \in Objs |-> NotARenderer]
    /\ page = FreshPage(<<DefaultPageWidth, DefaultPageHeight>>)
    /\ plast = [op |-> "none", obj |-> "None", separator |-> FALSE,
                raised |-> "none", again |-> FALSE]
    /\ fsys = [q \in Paths |-> [kind |-> "missing", files |-> {}]]
    /\ book = [stored |-> FALSE, pages |-> <<>>]
    /\ bpages = [x \in {"pg1", "pg2"} |-> 0]
    /\ blast = [op |-> "none"]
    /\ \E size \in RSizes, d \in RDims :
        fprev = NewPreview("preview", size, d)
    /\ flast = [op |-> "new", size |-> fprev.font_size, position |-> "none",
                pair |-> <<0, 0>>, raised |-> FALSE, anchor |-> "center"]

RNext ==
    \/ \E size \in RSizes : RSetFontSize(size)
    \/ \E name \in RNames : RSetTextPosition(name)
    \/ \E xy \in RPairs : RSetTextPositionPair(xy)
    \/ \E d \in RDims : RSetDimension(d)
    \/ RDraw

RSpec == RInit /\ [][RNext]_vars

(***************************************************************************)
(* Claims about FontPageTemplate, checked under TSpec                      *)
(***************************************************************************)

\* C1: in every reachable state of a template, right after construction with
\* any positive page_height and units_number and after any sequence of set_*
\* calls, header_units + body_units + footer_units <= page_height.
C1_UnitsWithinPageHeight == TotalUnits(tpl) <= tpl.page_height

\* C2: a set_* call that is rejected because the heights would exceed
\* page_height leaves the font size, height and text position of all three
\* bands as they were before the call.
C2_RejectedSetChangesNothing ==
    (tlast.op = "set" /\ tlast.raised) => tpl = tlast.pre

\* C3: a set_* (font_size, units, text_position) call is accepted exactly when
\* unit * units plus the heights of the other two bands is <= page_height,
\* with unit = page_height // units_number; an accepted call stores
\* font_size, unit * units and text_position in its band and leaves the other
\* two bands as they were.
C3_SetAcceptedIffFits ==
    tlast.op = "set" =>
        LET pre == tlast.pre
            unit == pre.page_height \div tlast.units_number
            fits == unit * tlast.units + OtherUnits(pre, tlast.band)
                        <= pre.page_height
        IN /\ tlast.raised <=> ~fits
           /\ ~tlast.raised =>
                /\ BandOf(tpl, tlast.band) =
                        [font_size |-> tlast.font_size,
                         units |-> unit * tlast.units,
                         text_position |-> tlast.text_position]
                /\ \A b \in Bands \ {tlast.band} :
                        BandOf(tpl, b) = BandOf(pre, b)
                /\ tpl.page_height = pre.page_height
                /\ tpl.unit = pre.unit

\* C3's case: an accepted call that changed its band, and the template had
\* room for it only because of the heights of the other two bands.
C3_Witness ==
    /\ tlast.op = "set"
    /\ ~tlast.raised
    /\ tlast.units > 0
    /\ BandOf(tpl, tlast.band) # BandOf(tlast.pre, tlast.band)
    /\ TotalUnits(tlast.pre) <= tpl.page_height
    /\ TotalUnits(tlast.pre) + tpl.unit > tpl.page_height


(***************************************************************************)
(* Claims about FontPage, checked under PSpec                              *)
(***************************************************************************)

PageSetters == {"set_header", "set_logo", "set_body", "set_footer"}

\* C4: draw on a page where header, body or footer is unset raises, and it
\* raises before any canvas work: the page's canvas and dimension are the
\* same after the failed draw as before it.
C4_DrawWithoutBandsRaisesFirst ==
    [][(plast'.op = "draw" /\ MissingBand(page)) =>
            /\ plast'.raised = "AttributeError"
            /\ page'.canvas = page.canvas
            /\ page'.dimension = page.dimension]_vars

\* C4's case: a draw raised for a missing band on a page whose dimension the
\* caller had reassigned, so that composing the background would have shown.
C4_Witness ==
    /\ plast.op = "draw"
    /\ plast.raised = "AttributeError"
    /\ MissingBand(page)
    /\ page.header # "None"
    /\ page.canvas.size # page.dimension

\* C5: after a successful draw, whatever renderers the bands hold (one
\* renderer may serve several bands), the header image has the template's
\* header height and is pasted at y = 0, the body image has the body height
\* and is pasted at y = header_units, the footer image has the footer height
\* and is pasted at y = header_units + body_units, so the bands do not
\* overlap and end at or above the page's bottom edge.
C5_BandsAtTemplateHeights ==
    (plast.op = "draw" /\ plast.raised = "none") =>
        LET p == page.canvas.pastes
        IN /\ Len(p) = 3
           /\ p[1].img.size[2] = tpl.header_units
           /\ p[1].at = <<0, 0>>
           /\ p[2].img.size[2] = tpl.body_units
           /\ p[2].at = <<0, tpl.header_units>>
           /\ p[3].img.size[2] = tpl.footer_units
           /\ p[3].at = <<0, tpl.header_units + tpl.body_units>>
           /\ p[3].at[2] + p[3].img.size[2] <= page.canvas.size[2]

\* C6: a draw that follows a draw with the same arguments that returned,
\* with nothing called in between, returns too and leaves the page, every
\* renderer and the template as the first draw left them.
C6_DrawTwiceIsDrawOnce ==
    [][(plast'.op = "draw" /\ plast'.again) =>
            /\ plast'.raised = "none"
            /\ page' = page
            /\ rs' = rs
            /\ tpl' = tpl]_vars

\* C6's case: the second of two draws has returned, on a page whose header
\* and body are one renderer.
C6_Witness ==
    /\ plast.op = "draw"
    /\ plast.again
    /\ plast.raised = "none"
    /\ page.header = page.body

\* C7: after every successful draw the canvas has the page's dimension, and
\* that dimension is (the width the page had when draw was called, the
\* template's page_height).
C7_CanvasHasPageDimension ==
    [][(plast'.op = "draw" /\ plast'.raised = "none") =>
            /\ page'.canvas.size = page'.dimension
            /\ page'.dimension = <<page.dimension[1], tpl'.page_height>>]_vars

\* C7's case: a draw returned on a page whose dimension the caller had
\* reassigned to a value that is not the template's height.
C7_Witness ==
    /\ plast.op = "draw"
    /\ plast.raised = "none"
    /\ page.dimension \notin PageDims

ExpectedFiles(objects, pages, extension) ==
    {[name |-> <<i, extension>>, data |-> objects[pages[i]].canvas] :
        i \in 1..Len(pages)}

\* C9: FontBooklet.save on a folder path that does not exist creates the
\* folder and saves the pages into it; it raises only when the path exists
\* and is not a directory, and then no page file has been written.
C9_SaveCreatesMissingFolder ==
    blast.op = "save" =>
        /\ blast.before = "missing" =>
                /\ blast.raised = "none"
                /\ IsDir(fsys, blast.folder)
                /\ IsDir(fsys, Parent(blast.folder))
                /\ fsys[blast.folder].files =
                        ExpectedFiles(bpages, book.pages, blast.extension)
        /\ blast.raised # "none" =>
                /\ blast.before = "file"
                /\ fsys[blast.folder].files = blast.files

\* C10: a save of a booklet with N pages into an existing empty folder
\* writes exactly the N files page1.<ext> .. pageN.<ext>, file page<i>
\* holding the canvas of the i-th page in construction order, also when one
\* FontPage object is at several positions of the booklet.
C10_SaveWritesOneFilePerPage ==
    (/\ blast.op = "save"
     /\ blast.before = "dir"
     /\ blast.files = {}) =>
        /\ blast.raised = "none"
        /\ Cardinality(fsys[blast.folder].files) = Len(book.pages)
        /\ fsys[blast.folder].files =
                ExpectedFiles(bpages, book.pages, blast.extension)
        /\ \A q \in Paths \ {blast.folder} : fsys[q].files = {}

\* A booklet of two pages that are one FontPage object was saved into an
\* empty folder.
C10_Witness ==
    /\ blast.op = "save"
    /\ blast.before = "dir"
    /\ blast.files = {}
    /\ Len(book.pages) = MaxPages
    /\ \E i, j \in 1..Len(book.pages) : i # j /\ book.pages[i] = book.pages[j]
    /\ fsys[blast.folder].files # {}

\* C11: FontBooklet(*args) raises TypeError exactly when some argument, at
\* any position, is not a FontPage, and then the new booklet has stored no
\* page; when every argument is a FontPage, iterating the booklet yields the
\* arguments in the order given.
C11_BookletTakesOnlyPages ==
    blast.op = "new" =>
        /\ blast.raised = "TypeError" <=>
                \E i \in 1..Len(blast.args) : ~IsFontPage(blast.args[i])
        /\ blast.raised \in {"TypeError", "none"}
        /\ blast.raised = "TypeError" => ~blast.stored
        /\ blast.raised = "none" =>
                /\ blast.stored
                /\ BookletIter(book) = blast.args

\* A constructor call was rejected for its last argument, after a FontPage.
C11_Witness ==
    /\ blast.op = "new"
    /\ blast.raised = "TypeError"
    /\ Len(blast.args) = MaxPages
    /\ IsFontPage(blast.args[1])
    /\ ~IsFontPage(blast.args[Len(blast.args)])

\* A booklet of two different pages was made, the second page first.
C11_WitnessOrder ==
    /\ blast.op = "new"
    /\ blast.raised = "none"
    /\ Len(blast.args) >= 2
    /\ blast.args[1] = "pg2"
    /\ blast.args[2] = "pg1"

(***************************************************************************)
(* Claims about FontPreview (specification RSpec)                          *)
(***************************************************************************)

\* The width and the height of the bounding box of the text drawn in the
\* font of size `font`: right - left and bottom - top.
RenderedWidth(font) == TextBBox(font)[3] - TextBBox(font)[1]
RenderedHeight(font) == TextBBox(font)[4] - TextBBox(font)[2]

\* The text in the font of size `font` fits the canvas in both components.
Fits(font, dimension) ==
    /\ RenderedWidth(font) <= dimension[1]
    /\ RenderedHeight(font) <= dimension[2]

\* C12: when set_font_size returns, the bounding box of the rendered text is
\* no wider than the canvas and no taller than the canvas.
C12_TextFitsCanvasAfterSetFontSize ==
    (flast.op = "set_font_size" /\ ~flast.raised) =>
        Fits(fprev.font, fprev.dimension)

\* C13: every set_font_size call returns normally, with a final font size
\* that is at most the requested size, and the requested size when the text
\* fits the canvas at that size.
C13_SetFontSizeReturns ==
    flast.op = "set_font_size" =>
        /\ ~flast.raised
        /\ fprev.font_size <= flast.size
        /\ fprev.font = fprev.font_size
        /\ Fits(flast.size, fprev.dimension) => fprev.font_size = flast.size

\* The coordinates an anchor name stands for, on a canvas W x H and for a
\* text measured w x h: left, right or middle by the name's first letter,
\* top, bottom or middle by the rest of the name; a name that is no anchor
\* is in the middle both ways.
AnchorX(name, W, w) ==
    IF name \in {"lcenter", "ltop", "lbelow"} THEN 0
    ELSE IF name \in {"rcenter", "rtop", "rbelow"} THEN W - w
    ELSE (W - w) \div 2
AnchorY(name, H, h) ==
    IF name \in {"top", "rtop", "ltop"} THEN 0
    ELSE IF name \in {"below", "rbelow", "lbelow"} THEN H - h
    ELSE (H - h) \div 2
AnchorXY(name, dimension, fxy) ==
    <<AnchorX(name, dimension[1], fxy[1]), AnchorY(name, dimension[2], fxy[2])>>

\* C14: set_text_position never raises; with a pair of coordinates it stores
\* the pair unchanged; with one of the 9 anchor names it stores the
\* coordinates the name stands for, computed from the canvas dimension and
\* the measured text size (ltop is always (0, 0)); with any other name it
\* stores the coordinates of 'center'.
C14_PositionResolution ==
    flast.op = "set_text_position" =>
        /\ ~flast.raised
        /\ flast.position = "pair" => fprev.font_position = flast.pair
        /\ flast.position # "pair" =>
                fprev.font_position =
                    AnchorXY(flast.position, fprev.dimension,
                             GetMultilineTextsize(fprev.font))
        /\ flast.position = "ltop" => fprev.font_position = <<0, 0>>
        /\ flast.position \notin Anchors \cup {"pair"} =>
                fprev.font_position =
                    AnchorXY("center", fprev.dimension,
                             GetMultilineTextsize(fprev.font))
        /\ fprev.image.position = fprev.font_position

\* The text position was set by a name that is no anchor, on a canvas where
\* 'center' is not the top left corner.
C14_Witness ==
    /\ flast.op = "set_text_position"
    /\ flast.position \notin Anchors \cup {"pair"}
    /\ fprev.font_position # <<0, 0>>
    /\ fprev.font_position[1] # fprev.dimension[1] - GetMultilineTextsize(fprev.font)[1]

\* C15: while the text position was last chosen by an anchor name, after a
\* set_font_size call that returned, and after a draw, font_position is the
\* anchor's coordinates for the current dimension and the text size measured
\* in the current font.
C15_AnchorFollowsMetrics ==
    (/\ flast.op \in {"set_font_size", "draw"}
     /\ ~flast.raised
     /\ flast.anchor # "pair") =>
        fprev.font_position =
            AnchorXY(flast.anchor, fprev.dimension,
                     GetMultilineTextsize(fprev.font))

(***************************************************************************)
(* A claim about the references of a FontPage (specification PSpec)        *)
(***************************************************************************)

\* C16: on every constructed page the logo attribute is defined, None or a
\* logo; after a set_logo(logo) that returned, the page's logo reference is
\* that logo, as the header, body and footer references are the arguments of
\* set_header, set_body and set_footer.
C16_PageKeepsItsParts ==
    /\ page.logo # "unset"
    /\ plast.raised = "none" =>
        /\ plast.op = "set_logo" => page.logo = plast.obj
        /\ plast.op = "set_header" => page.header = plast.obj
        /\ plast.op = "set_body" => page.body = plast.obj
        /\ plast.op = "set_footer" => page.footer = plast.obj

====
